---- MODULE Spec2Model ----
(***************************************************************************)
(* shear: scene boundaries for chunked video encoding.                     *)
(*                                                                         *)
(* The model covers src/main.rs: the boundary normalisation that main      *)
(* performs on the detector's scene changes (lines 118-134) and the pure   *)
(* function split_long_scenes (lines 163-197), computed over usize values  *)
(* of Width bits.  Arithmetic that exceeds the width either panics         *)
(* (overflow checks on, the debug profile) or wraps (overflow checks off,  *)
(* the release profile); division by zero always panics.                   *)
(***************************************************************************)
EXTENDS Integers, Sequences, FiniteSets

\* ------------------------------------------------------------------ bounds

\* Width of usize in the model, in bits.
Width == 4
\* Small frame indices 0..MaxFrame are drawn as inputs, besides the
\* largest usize value.
MaxFrame == 6
\* Longest list of scene changes drawn as input.
MaxLen == 2

USIZE_MAX == 2^Width - 1

FrameValues == (0..MaxFrame) \cup {USIZE_MAX}

FrameLists == UNION {[1..n -> FrameValues] : n \in 0..MaxLen}

\* ------------------------------------------------------------------ usize arithmetic

Ok(v) == [panic |-> "none", v |-> v]
Panic(kind) == [panic |-> kind, v |-> 0]

\* a + b on usize.
Add(a, b, checks) ==
    IF a + b <= USIZE_MAX THEN Ok(a + b)
    ELSE IF checks THEN Panic("overflow")
    ELSE Ok((a + b) % (USIZE_MAX + 1))

\* a - b on usize.
Sub(a, b, checks) ==
    IF a >= b THEN Ok(a - b)
    ELSE IF checks THEN Panic("overflow")
    ELSE Ok((a - b) % (USIZE_MAX + 1))

\* a * b on usize.
Mul(a, b, checks) ==
    IF a * b <= USIZE_MAX THEN Ok(a * b)
    ELSE IF checks THEN Panic("overflow")
    ELSE Ok((a * b) % (USIZE_MAX + 1))

\* a / b on usize: panics on a zero divisor in every profile.
Div(a, b) ==
    IF b = 0 THEN Panic("div_zero") ELSE Ok(a \div b)

\* usize::saturating_sub
SaturatingSub(a, b) == IF a >= b THEN a - b ELSE 0

\* ------------------------------------------------------------------ Vec helpers

RECURSIVE Insert(_, _)
Insert(x, s) ==
    IF s = <<>> THEN <<x>>
    ELSE IF x <= Head(s) THEN <<x>> \o s
    ELSE <<Head(s)>> \o Insert(x, Tail(s))

\* Vec::sort (ascending, stable)
RECURSIVE Sort(_)
Sort(s) == IF s = <<>> THEN <<>> ELSE Insert(Head(s), Sort(Tail(s)))

\* Vec::dedup: removes consecutive repeated elements.
RECURSIVE Dedup(_)
Dedup(s) ==
    IF Len(s) <= 1 THEN s
    ELSE IF s[1] = s[2] THEN Dedup(Tail(s))
    ELSE <<s[1]>> \o Dedup(Tail(s))

\* ------------------------------------------------------------------ split_long_scenes

\* end of the range that starts at scene_starts[i] (indices from 1 here).
RangeEndAlwaysTotal(ss, i, total) == total
RangeEnd(ss, i, total) ==
    IF i + 1 <= Len(ss) THEN ss[i + 1] ELSE total

\* (scene_len + max_frames - 1) / max_frames
NumChunks(scene_len, max, checks) ==
    LET s == Add(scene_len, max, checks) IN
    IF s.panic # "none" THEN s
    ELSE LET d == Sub(s.v, 1, checks) IN
         IF d.panic # "none" THEN d ELSE Div(d.v, max)

\* scene_len / num_chunks
ChunkSizeIsMax(scene_len, num_chunks, max) == Ok(max)
ChunkSize(scene_len, num_chunks, max) == Div(scene_len, num_chunks)

\* start + j * chunk_size
SplitPointNoStart(start, j, chunk_size, checks) == Mul(j, chunk_size, checks)
SplitPoint(start, j, chunk_size, checks) ==
    LET m == Mul(j, chunk_size, checks) IN
    IF m.panic # "none" THEN m ELSE Add(start, m.v, checks)

\* for j in 1..num_chunks { ... if split < end { result.push(split) } },
\* from j on; [panic, pts].
RECURSIVE SplitPoints(_, _, _, _, _, _)
SplitPoints(start, end, num_chunks, chunk_size, j, checks) ==
    IF j >= num_chunks THEN [panic |-> "none", pts |-> <<>>]
    ELSE LET split == SplitPoint(start, j, chunk_size, checks) IN
         IF split.panic # "none" THEN [panic |-> split.panic, pts |-> <<>>]
         ELSE LET rest == SplitPoints(start, end, num_chunks, chunk_size, j + 1, checks) IN
              [panic |-> rest.panic,
               pts   |-> IF split.v < end THEN <<split.v>> \o rest.pts ELSE rest.pts]

\* One iteration of the outer loop: what it pushes for the range [start, end).
ProcessRangeStartOnlyIfShort(start, end, max, checks) ==
    LET scene_len == SaturatingSub(end, start) IN
    IF scene_len > max
    THEN LET num_chunks == NumChunks(scene_len, max, checks) IN
         IF num_chunks.panic # "none" THEN [panic |-> num_chunks.panic, pts |-> <<>>]
         ELSE LET chunk_size == ChunkSize(scene_len, num_chunks.v, max) IN
              IF chunk_size.panic # "none" THEN [panic |-> chunk_size.panic, pts |-> <<>>]
              ELSE SplitPoints(start, end, num_chunks.v, chunk_size.v, 1, checks)
    ELSE [panic |-> "none", pts |-> <<start>>]
ProcessRange(start, end, max, checks) ==
    LET scene_len == SaturatingSub(end, start) IN
    IF scene_len > max
    THEN LET num_chunks == NumChunks(scene_len, max, checks) IN
         IF num_chunks.panic # "none" THEN [panic |-> num_chunks.panic, pts |-> <<start>>]
         ELSE LET chunk_size == ChunkSize(scene_len, num_chunks.v, max) IN
              IF chunk_size.panic # "none" THEN [panic |-> chunk_size.panic, pts |-> <<start>>]
              ELSE LET sp == SplitPoints(start, end, num_chunks.v, chunk_size.v, 1, checks) IN
                   [panic |-> sp.panic, pts |-> <<start>> \o sp.pts]
    ELSE [panic |-> "none", pts |-> <<start>>]

\* for i in 0..scene_starts.len() { ... }, from index i on; [panic, pts].
RECURSIVE BuildRanges(_, _, _, _, _)
BuildRanges(ss, total, max, i, checks) ==
    IF i > Len(ss) THEN [panic |-> "none", pts |-> <<>>]
    ELSE LET r == ProcessRange(ss[i], RangeEnd(ss, i, total), max, checks) IN
         IF r.panic # "none" THEN r
         ELSE LET rest == BuildRanges(ss, total, max, i + 1, checks) IN
              [panic |-> rest.panic, pts |-> r.pts \o rest.pts]

\* The whole function: what the loop pushed, and the value returned after
\* result.sort(); result.dedup().
split_long_scenes(ss, total, max, checks) ==
    LET b == BuildRanges(ss, total, max, 1, checks) IN
    [panic  |-> b.panic,
     pushed |-> b.pts,
     result |-> IF b.panic = "none" THEN Dedup(Sort(b.pts)) ELSE <<>>]

\* ------------------------------------------------------------------ main

\* if scene_starts.is_empty() || scene_starts[0] != 0 { scene_starts.insert(0, 0) }
EnsureFrameZeroOnlyIfEmpty(changes) ==
    IF changes = <<>> THEN <<0>> ELSE changes
EnsureFrameZero(changes) ==
    IF changes = <<>> \/ changes[1] # 0 THEN <<0>> \o changes ELSE changes

\* if args.total_frames > 0 { args.total_frames } else { results.frame_count }
TotalFrames(args_total_frames, frame_count) ==
    IF args_total_frames > 0 THEN args_total_frames ELSE frame_count

\* ------------------------------------------------------------------ state

VARIABLES
    pc,               \* "start" before the call, "done" after it
    caller,           \* who called split_long_scenes: "main", "test", "reapply"
    overflow_checks,  \* build profile: TRUE panics on overflow, FALSE wraps
    scene_changes,    \* results.scene_changes as the detector returned it
    scene_starts,     \* argument of split_long_scenes
    total_frames,     \* argument of split_long_scenes
    max_frames,       \* argument of split_long_scenes
    pushed,           \* result before result.sort(); result.dedup()
    result,           \* value returned by split_long_scenes
    panicked,         \* "none", or the kind of panic that ended the call
    first_starts,     \* scene_starts of the first call, kept across a re-application
    first_result      \* value returned by the first call, kept across a re-application

vars == <<pc, caller, overflow_checks, scene_changes, scene_starts, total_frames,
          max_frames, pushed, result, panicked, first_starts, first_result>>

Init ==
    /\ pc = "start"
    /\ caller = "none"
    /\ overflow_checks \in BOOLEAN
    /\ scene_changes = <<>>
    /\ scene_starts = <<>>
    /\ total_frames = 0
    /\ max_frames = 0
    /\ pushed = <<>>
    /\ result = <<>>
    /\ panicked = "none"
    /\ first_starts = <<>>
    /\ first_result = <<>>

\* The call itself, shared by every caller.
Call(ss, total, max) ==
    LET r == split_long_scenes(ss, total, max, overflow_checks) IN
    /\ scene_starts' = ss
    /\ total_frames' = total
    /\ max_frames' = max
    /\ pushed' = r.pushed
    /\ result' = r.result
    /\ panicked' = r.panic
    /\ pc' = "done"

\* main, lines 118-134: the detector's results arrive, frame 0 is ensured,
\* total_frames is chosen and the splitter is called.
Main ==
    /\ pc = "start"
    /\ \E changes \in FrameLists, max_scene_frames \in FrameValues,
          total \in {TotalFrames(args_total_frames, frame_count) :
                        args_total_frames \in FrameValues, frame_count \in FrameValues} :
          /\ scene_changes' = changes
          /\ Call(EnsureFrameZero(changes), total, max_scene_frames)
    /\ caller' = "main"
    /\ UNCHANGED <<overflow_checks, first_starts, first_result>>

\* mod tests, lines 203-234: split_long_scenes called directly on a list.
TestCall ==
    /\ pc = "start"
    /\ \E ss \in FrameLists, total \in FrameValues, max \in FrameValues :
          Call(ss, total, max)
    /\ caller' = "test"
    /\ UNCHANGED <<overflow_checks, scene_changes, first_starts, first_result>>

\* A second call on the first call's output, same total_frames and max_frames.
Reapply ==
    /\ pc = "done"
    /\ caller \in {"main", "test"}
    /\ panicked = "none"
    /\ first_starts' = scene_starts
    /\ first_result' = result
    /\ Call(result, total_frames, max_frames)
    /\ caller' = "reapply"
    /\ UNCHANGED <<overflow_checks, scene_changes>>

Next == Main \/ TestCall \/ Reapply

Spec == Init /\ [][Next]_vars

\* ------------------------------------------------------------------ vocabulary of the properties

StrictlyIncreasing(s) == \A i \in 1..(Len(s) - 1) : s[i] < s[i + 1]

Elems(s) == {s[i] : i \in DOMAIN s}

\* The call returned a value.
Returned == pc = "done" /\ panicked = "none"

\* Well-formed arguments: strictly increasing boundaries, total_frames not
\* below the last one.
WellFormedList(ss, total) ==
    /\ StrictlyIncreasing(ss)
    /\ ss # <<>> => total >= ss[Len(ss)]

WellFormed == WellFormedList(scene_starts, total_frames) /\ max_frames >= 1

\* End of the range starting at s[i], and the (mathematical) gap to it.
EndAfter(s, i) == IF i < Len(s) THEN s[i + 1] ELSE total_frames
GapAfter(s, i) == EndAfter(s, i) - s[i]

\* Length of input range i as the code sees it (0 when the end is below the start).
RangeLen(i) == IF GapAfter(scene_starts, i) > 0 THEN GapAfter(scene_starts, i) ELSE 0

\* ceil(a / b) for b >= 1, by its defining inequalities.
CeilDiv(a, b) == CHOOSE n \in 0..a : n * b >= a /\ (n - 1) * b < a

\* Input ranges longer than max_frames.
LongRanges == {i \in DOMAIN scene_starts : RangeLen(i) > max_frames}

\* Output boundaries strictly inside input range i.
Inside(i) == {x \in Elems(result) : scene_starts[i] < x /\ x < EndAfter(scene_starts, i)}

SetMax(S) == CHOOSE x \in S : \A y \in S : y <= x

\* ------------------------------------------------------------------ C1

\* C1: for well-formed input, every gap between consecutive output
\* boundaries, and the gap from the last output boundary to total_frames,
\* is at most max_frames.
C1_BoundedLength ==
    (Returned /\ WellFormed) =>
        \A i \in DOMAIN result : GapAfter(result, i) <= max_frames

\* ------------------------------------------------------------------ C2

\* C2: for well-formed input, the output is strictly increasing, contains
\* every input boundary and is at least as long as the input.
C2_MonotonicSuperset ==
    (Returned /\ WellFormed) =>
        /\ StrictlyIncreasing(result)
        /\ Elems(scene_starts) \subseteq Elems(result)
        /\ Len(result) >= Len(scene_starts)

\* A well-formed call with at least two boundaries returned a longer list.
C2_Witness ==
    /\ Returned /\ WellFormed
    /\ Len(scene_starts) >= 2
    /\ Len(result) > Len(scene_starts)

\* ------------------------------------------------------------------ C3

AllGapsShort == \A i \in DOMAIN scene_starts : GapAfter(scene_starts, i) <= max_frames

\* C3: when the boundaries are strictly increasing (the empty list
\* included) and every gap, the final gap to total_frames included, is at
\* most max_frames, the call returns its input unchanged.
C3_NoOpWhenShort ==
    (pc = "done" /\ StrictlyIncreasing(scene_starts) /\ AllGapsShort) =>
        /\ panicked = "none"
        /\ result = scene_starts

\* A call that left two boundaries unchanged, both gaps equal to max_frames.
C3_Witness ==
    /\ pc = "done"
    /\ Len(scene_starts) = 2
    /\ StrictlyIncreasing(scene_starts)
    /\ \A i \in DOMAIN scene_starts : GapAfter(scene_starts, i) = max_frames
    /\ result = scene_starts

\* ------------------------------------------------------------------ C4

\* C4: for well-formed input, calling split_long_scenes on its own output
\* (same total_frames and max_frames) returns that output again.
C4_Idempotent ==
    (caller = "reapply" /\ Returned
        /\ WellFormedList(first_starts, total_frames) /\ max_frames >= 1) =>
        result = first_result

\* ------------------------------------------------------------------ C5

\* The boundaries the even split of range i calls for.
EvenPoints(i) ==
    LET L == RangeLen(i)
        n == CeilDiv(L, max_frames)
    IN {scene_starts[i] + j * (L \div n) : j \in 1..(n - 1)}

\* C5: for well-formed input the output is exactly the input boundaries
\* plus, for each range longer than max_frames, the n-1 points
\* start + j*floor(L/n), n = ceil(L/max_frames); all n-1 points are inside
\* the range, the chunks before the last are floor(L/n) long, and a range
\* of at most max_frames gets no point.
C5_EvenSplit ==
    (Returned /\ WellFormed) =>
        /\ Elems(result) = Elems(scene_starts) \cup UNION {EvenPoints(i) : i \in LongRanges}
        /\ \A i \in DOMAIN scene_starts :
              IF i \in LongRanges
              THEN LET L == RangeLen(i)
                       n == CeilDiv(L, max_frames)
                       last == SetMax(Inside(i) \cup {scene_starts[i]})
                   IN /\ Cardinality(Inside(i)) = n - 1
                      /\ \A k \in DOMAIN result :
                            (scene_starts[i] <= result[k] /\ result[k] < last) =>
                                GapAfter(result, k) = L \div n
              ELSE Inside(i) = {}

\* A well-formed call split a range into three or more chunks of unequal length.
C5_Witness ==
    /\ Returned /\ WellFormed
    /\ \E i \in LongRanges :
          /\ CeilDiv(RangeLen(i), max_frames) >= 3
          /\ RangeLen(i) % CeilDiv(RangeLen(i), max_frames) # 0
          /\ scene_starts[i] > 0

\* ------------------------------------------------------------------ C6

\* Number of values the loop pushes when a range with its end below its
\* start counts as length 0.
RECURSIVE ExpectedPushes(_)
ExpectedPushes(i) ==
    IF i > Len(scene_starts) THEN 0
    ELSE 1 + (IF i \in LongRanges THEN CeilDiv(RangeLen(i), max_frames) - 1 ELSE 0)
           + ExpectedPushes(i + 1)

\* C6: for any list of boundaries (any order, duplicates allowed) and any
\* total_frames, with max_frames >= 1, the call fails in no way and
\* returns a sorted, duplicate-free list; a range whose end is below its
\* start counts as length 0 and gets no split point.
C6_MalformedNoCrash ==
    (pc = "done" /\ max_frames >= 1) =>
        /\ panicked = "none"
        /\ StrictlyIncreasing(result)
        /\ Len(pushed) = ExpectedPushes(1)

\* ------------------------------------------------------------------ C7

\* C7 as stated: whatever list the detector returns, main passes a
\* strictly increasing list starting with 0 to split_long_scenes.
C7_CallerNormalizes ==
    caller = "main" =>
        /\ scene_starts # <<>>
        /\ scene_starts[1] = 0
        /\ StrictlyIncreasing(scene_starts)

\* C7 amended: whatever list the detector returns, main passes a list
\* starting with 0; the list is strictly increasing whenever the
\* detector's list is.
C7_LeadingZero ==
    caller = "main" =>
        /\ scene_starts # <<>>
        /\ scene_starts[1] = 0
        /\ StrictlyIncreasing(scene_changes) => StrictlyIncreasing(scene_starts)

\* main received a strictly increasing list that did not start with 0.
C7_Witness ==
    /\ caller = "main"
    /\ Len(scene_changes) >= 2
    /\ StrictlyIncreasing(scene_changes)
    /\ scene_changes[1] # 0
    /\ Len(scene_starts) = Len(scene_changes) + 1

\* ------------------------------------------------------------------ C8

\* C8: for well-formed input whose values fit usize, max_frames >= 1, the
\* call returns a value: nothing overflows, wraps or divides by zero.
C8_Total ==
    (pc = "done" /\ WellFormed) => panicked = "none"

\* ------------------------------------------------------------------ C9

\* C9: in every range longer than max_frames of a well-formed input, the
\* last chunk is between floor(L/n) and floor(L/n) + n - 1 long, and
\* strictly shorter than max_frames.
C9_FinalChunk ==
    (Returned /\ WellFormed) =>
        \A i \in LongRanges :
            LET L == RangeLen(i)
                n == CeilDiv(L, max_frames)
                end == EndAfter(scene_starts, i)
                last_chunk == end - SetMax({x \in Elems(result) : x < end})
            IN /\ L \div n <= last_chunk
               /\ last_chunk <= (L \div n) + n - 1
               /\ last_chunk < max_frames

\* ------------------------------------------------------------------ C10

\* C10: for well-formed input, what the loop pushed is already strictly
\* increasing, and the final sort and dedup leave it unchanged.
C10_PushedSorted ==
    (Returned /\ WellFormed) =>
        /\ StrictlyIncreasing(pushed)
        /\ result = pushed

\* A well-formed call pushed split points for a range that is not the first.
C10_Witness ==
    /\ Returned /\ WellFormed
    /\ Len(scene_starts) >= 2
    /\ \E i \in LongRanges : i >= 2
    /\ Len(pushed) > Len(scene_starts)

====
